---------------------------- MODULE Spec2Model ----------------------------
(***************************************************************************)
(* A model of matador's convex-hull analysis (src/src/hull.py):            *)
(* QueryConvexHull.__init__, get_chempots, binary_hull, voltage_curve,     *)
(* volume_curve and the path sampler metastable_voltage_profile; and of    *)
(* matador.workflows.Workflow (src/matador/workflows/workflows.py).        *)
(*                                                                         *)
(* Numbers.  The program computes in IEEE doubles; the model computes in   *)
(* exact rationals [n, d] (d > 0 in lowest terms; d = 0 stands for +inf,   *)
(* -inf and nan).  Energies are given in integer units of 0.1 eV.  The     *)
(* numbers of binary_hull are also computed in binary64 itself (FloatHull).*)
(***************************************************************************)
EXTENDS Integers, Sequences, FiniteSets, TLC

VARIABLES
    pc,                    \* position of QueryConvexHull.__init__
    args,                  \* self.args: the arguments as they were given
                           \* (line 44 also overwrites the positive entries of
                           \* args['chempots'], the list self.chem_pots is)
    elements,              \* self.elements: <<A, B>>, symbols as letter tuples
    chem_pots,             \* self.chem_pots: <<mu_A, mu_B>> from the command line
    hull_cutoff,           \* self.hull_cutoff
    cursor,                \* self.cursor: the query's records, annotated in place
    match,                 \* self.match: the two chemical-potential records
    mu_enthalpy,           \* self.mu_enthalpy
    mu_volume,             \* self.mu_volume
    repo,                  \* query.repo: the single-element records of the database
    scanned,               \* history: the elements get_chempots looked up in repo
    failure,               \* history: the failure messages printed
    structures,            \* self.structures: the (stoich, formation) point set
    hull_comp,             \* self.hull_comp
    hull_energy,           \* self.hull_energy
    hull_dist,             \* self.hull_dist
    hull_cursor,           \* self.hull_cursor
    stable_comp,           \* self.stable_comp
    stable_enthalpy_per_b, \* self.stable_enthalpy_per_b
    stable_vol,            \* self.stable_vol
    voltages,              \* self.voltages
    x,                     \* self.x (voltage_curve and volume_curve both set it)
    vol_per_y,             \* self.vol_per_y
    meta_structures,       \* metastable_voltage_profile's local `structures`
    reference_cathode,     \* reference_cathode
    running_average_profile,
    advanced_average_profile,
    diff_average_profile,
    converged,
    last_converged,
    num_contribs,
    num_converged,
    delithiated,
    voltage_profile,
    prev,
    path_structures,
    count,                 \* pick_metastable_structure's draw counter
    path,                  \* history: the num_a values the current path visited
    num_paths,             \* history: paths started, counted up to MaxPaths
    below_hist,            \* history: per averaged path, was its L1 change
                           \* below the tolerance
    wf_pc,                 \* position of Workflow.__init__
    steps,                 \* Workflow.steps: what each step's function does
    step_ind,              \* run_steps: the 1-based index of the next step
    success,               \* Workflow.success: "None", "True" or "False"
    ran,                   \* history: the indices of the steps whose run_step
                           \* was called
    postprocess_calls,     \* history: the calls of postprocess
    relaxer_calls,         \* history: the relaxer methods called
    raised,                \* the exception that left Workflow.__init__, "" if none
    fl_structures,         \* structures as doubles
    fl_hull_dist,          \* hull_dist as doubles
    fl_stable              \* the 1-based indices of the records with
                           \* hull_dist <= hull_cutoff + 1e-12 in doubles

hullVars == <<args, elements, chem_pots, hull_cutoff, cursor, match, mu_enthalpy,
              mu_volume, repo, scanned, failure,
              structures, hull_comp, hull_energy, hull_dist, hull_cursor,
              stable_comp, stable_enthalpy_per_b, stable_vol>>

voltVars == <<voltages, x, vol_per_y>>

trialVars == <<meta_structures, reference_cathode, running_average_profile,
               advanced_average_profile, diff_average_profile, converged,
               last_converged, num_contribs, num_converged, below_hist>>

pathVars == <<delithiated, voltage_profile, prev, path_structures, count, path,
              num_paths>>

wfVars == <<wf_pc, steps, step_ind, success, ran, postprocess_calls,
            relaxer_calls, raised>>

---------------------------------------------------------------------------
(* Exact rational arithmetic standing for the program's floats.            *)

Abs(i) == IF i < 0 THEN -i ELSE i

Sign(i) == IF i < 0 THEN -1 ELSE IF i > 0 THEN 1 ELSE 0

RECURSIVE GCD(_, _)
GCD(a, b) == IF b = 0 THEN a ELSE GCD(b, a % b)

\* n/d in lowest terms with d > 0; a zero denominator gives inf, -inf or nan
\* as float division by zero does under numpy.
Norm(n, d) ==
    IF d = 0 THEN [n |-> Sign(n), d |-> 0]
    ELSE LET g == GCD(Abs(n), Abs(d))
         IN  [n |-> (Sign(d) * n) \div g, d |-> Abs(d) \div g]

R(i) == [n |-> i, d |-> 1]

Zero == R(0)

One == R(1)

Inf == [n |-> 1, d |-> 0]

IsFinite(a) == a.d # 0

RAdd(a, b) ==
    IF IsFinite(a) /\ IsFinite(b) THEN Norm(a.n * b.d + b.n * a.d, a.d * b.d)
    ELSE IF IsFinite(b) THEN a
    ELSE IF IsFinite(a) THEN b
    ELSE IF a.n = b.n THEN a ELSE [n |-> 0, d |-> 0]

RNeg(a) == [n |-> -a.n, d |-> a.d]

RSub(a, b) == RAdd(a, RNeg(b))

RMul(a, b) == Norm(a.n * b.n, a.d * b.d)

RDiv(a, b) ==
    IF IsFinite(b) THEN Norm(a.n * b.d, a.d * b.n)
    ELSE IF IsFinite(a) THEN Zero ELSE [n |-> 0, d |-> 0]

IsNaN(a) == a.n = 0 /\ a.d = 0

\* a < b and a <= b as floats compare: false whenever either side is nan.
RLess(a, b) ==
    /\ ~IsNaN(a) /\ ~IsNaN(b)
    /\ IF IsFinite(a) \/ IsFinite(b) THEN a.n * b.d < b.n * a.d ELSE a.n < b.n

RLeq(a, b) ==
    /\ ~IsNaN(a) /\ ~IsNaN(b)
    /\ IF IsFinite(a) \/ IsFinite(b) THEN a.n * b.d <= b.n * a.d ELSE a.n <= b.n

RAbs(a) == [n |-> Abs(a.n), d |-> a.d]

---------------------------------------------------------------------------
(* Sequence helpers.                                                        *)

Range(s) == {s[i] : i \in 1..Len(s)}

RECURSIVE SeqSum(_)
SeqSum(s) == IF s = <<>> THEN Zero ELSE RAdd(s[1], SeqSum(Tail(s)))

\* Sequences over S of length 0..n.
SeqsUpTo(S, n) == UNION {[1..k -> S] : k \in 0..n}

---------------------------------------------------------------------------
(* Element symbols are tuples of letters, so that Python's substring test  *)
(* `x_elem in elem[0]` is computed and not assumed to be equality.          *)

Li == <<"L", "i">>

P == <<"P">>

S == <<"S">>

Si == <<"S", "i">>

\* Python's `u in v` on strings.
IsSubstring(u, v) ==
    \E k \in 0..(Len(v) - Len(u)) : SubSeq(v, k + 1, k + Len(u)) = u

---------------------------------------------------------------------------
(* Inputs.                                                                 *)

\* Most records a query returns in the model.
MaxRecords == 2

\* args['composition'], already split into symbols by re.split (hull.py:154).
Compositions == {<<Li, P>>, <<S, Si>>}

\* args['chempots'] in 0.1 eV; a positive value is negated by __init__.
ChempotArgs == {<<10, -20>>}

\* args['hull_cutoff'] in 0.1 eV.
CutoffArgs == {0, 2}

\* Reduced formulas A_a B_b as <<a, b>>.
Formulas == {<<1, 1>>, <<1, 2>>, <<2, 1>>}

\* enthalpy_per_atom of a record, in 0.1 eV.
EnthalpySet == {-20, -18, -12}

\* num_fu of the i-th record of a cursor: the formula units per cell differ
\* from record to record (enthalpy_per_b does not depend on them).
NumFuOf(i) == i

\* cell_volume of a record with the reduced formula f and nfu formula units:
\* 8 per atom of A and 20 per atom of B.
CellVolumeOf(f, nfu) == (8 * f[1] + 20 * f[2]) * nfu

\* The annotation fields binary_hull and the sampler attach to a record.
NoAnnotations ==
    [has |-> {}, stoich |-> Zero, num_a |-> Zero, enthalpy_per_b |-> Zero,
     hull_distance |-> Zero, capacity |-> Zero]

\* A database record of the binary A-B: `first` tells which element the
\* stoichiometry lists first.  enthalpy is the total of the cell, i.e.
\* enthalpy_per_atom * atoms per formula unit * num_fu.
MakeDoc(id, comp, first, f, epa, nfu) ==
    [id |-> id,
     stoichiometry |-> IF first = 1 THEN <<<<comp[1], f[1]>>, <<comp[2], f[2]>>>>
                       ELSE <<<<comp[2], f[2]>>, <<comp[1], f[1]>>>>,
     num_fu |-> nfu,
     enthalpy_per_atom |-> R(epa),
     enthalpy |-> R(epa * (f[1] + f[2]) * nfu),
     cell_volume |-> R(CellVolumeOf(f, nfu)),
     ann |-> NoAnnotations]

DocChoices == {1, 2} \X Formulas \X EnthalpySet

\* enthalpy_per_atom of the records of the runs that go on to the path
\* sampler: one value on or near the hull, one far above it.
SamplerEnthalpySet == {-18, -12}

\* The records of the runs that go on to the path sampler: the order of
\* the two symbols in a record plays no part there.
SamplerDocChoices == {1} \X Formulas \X SamplerEnthalpySet

\* Every cursor of at most n records over the composition comp.
CursorsOf(choices, comp, n) ==
    {[i \in 1..Len(c) |-> MakeDoc(i, comp, c[i][1], c[i][2], c[i][3], NumFuOf(i))] :
        c \in SeqsUpTo(choices, n)}

Cursors(comp, n) == CursorsOf(DocChoices, comp, n)

---------------------------------------------------------------------------
(* QueryConvexHull.__init__, lines 31-46: the cutoff and the sign rule.    *)

\* self.args.get(key) is not None: an argument that was not given is left
\* out of the record args.
Has(a, key) == key \in DOMAIN a

\* self.K2eV = 8.61733e-5 eV per kelvin, in 0.1 eV per kelvin.
K2eV == Norm(861733, 1000000000)

\* Mutant of CutoffOf: hull_cutoff is looked at before hull_temp.
CutoffOf_CutoffFirst(a) ==
    IF Has(a, "hull_cutoff") THEN R(a.hull_cutoff)
    ELSE IF Has(a, "hull_temp") THEN RMul(R(a.hull_temp), K2eV)
    ELSE Zero

\* Lines 33-38.
CutoffOf(a) ==
    IF Has(a, "hull_temp") THEN RMul(R(a.hull_temp), K2eV)
    ELSE IF Has(a, "hull_cutoff") THEN R(a.hull_cutoff)
    ELSE Zero

\* Mutant of ChemPotsOf: the values are taken as given.
ChemPotsOf_Kept(a) ==
    IF Has(a, "chempots")
    THEN [i \in 1..Len(a.chempots) |-> R(a.chempots[i])]
    ELSE <<>>

\* Lines 40-46; <<>> stands for self.chem_pots = None.
ChemPotsOf(a) ==
    IF Has(a, "chempots")
    THEN [i \in 1..Len(a.chempots) |->
             IF a.chempots[i] > 0 THEN R(-1 * a.chempots[i]) ELSE R(a.chempots[i])]
    ELSE <<>>

---------------------------------------------------------------------------
(* get_chempots (lines 89-147).                                            *)

\* The command-line branch, lines 99-120.
MatchOf(elems, pots) ==
    [i \in 1..2 |->
        [id |-> 0,
         stoichiometry |-> <<<<elems[i], 1>>>>,
         num_fu |-> 1,
         enthalpy_per_atom |-> pots[i],
         enthalpy |-> pots[i],
         ann |-> NoAnnotations]]

\* A single-element record of the database: two atoms of elem in the cell,
\* vol per atom.
MakeElementDoc(elem, epa, vol) ==
    [id |-> 0,
     stoichiometry |-> <<<<elem, 1>>>>,
     num_fu |-> 2,
     num_atoms |-> 2,
     enthalpy_per_atom |-> R(epa),
     enthalpy |-> R(2 * epa),
     cell_volume |-> R(2 * vol),
     ann |-> NoAnnotations]

\* Mutant of MuCandidates: the element is left out of the query.
MuCandidates_AnyElement(db, elem) == {d \in db : Len(d.stoichiometry) = 1}

\* What query.repo.find returns for query_composition(custom_elem=[elem])
\* (lines 125-131): the single-element records of elem.
MuCandidates(db, elem) ==
    {d \in db : Len(d.stoichiometry) = 1 /\ d.stoichiometry[1][1] = elem}

\* The first record of the cursor sorted by ascending enthalpy_per_atom
\* (lines 131-136).
MuFirst(db, elem) ==
    CHOOSE d \in MuCandidates(db, elem) :
        \A e \in MuCandidates(db, elem) :
            RLeq(d.enthalpy_per_atom, e.enthalpy_per_atom)

\* How many of the two elements the scan of lines 123-146 resolves before
\* it meets one without a candidate.
ResolvedUpTo(elems, db) ==
    IF MuCandidates(db, elems[1]) = {} THEN 0
    ELSE IF MuCandidates(db, elems[2]) = {} THEN 1
    ELSE 2

\* get_chempots: match, mu_enthalpy and mu_volume as it leaves them, the
\* elements it looked up, and whether it ended in exit() at line 146.
\* <<>> stands for None.
GetChempots(elems, pots, db) ==
    IF pots # <<>>
    THEN [match |-> MatchOf(elems, pots),
          mu_enthalpy |-> pots,
          mu_volume |-> <<Zero, Zero>>,
          scanned |-> <<>>,
          failed |-> FALSE]
    ELSE LET n == ResolvedUpTo(elems, db)
         IN  [match |-> [i \in 1..2 |->
                            IF i <= n THEN MuFirst(db, elems[i]) ELSE <<>>],
              mu_enthalpy |-> [i \in 1..2 |->
                                  IF i <= n
                                  THEN MuFirst(db, elems[i]).enthalpy_per_atom
                                  ELSE Zero],
              mu_volume |-> [i \in 1..2 |->
                                IF i <= n
                                THEN RDiv(MuFirst(db, elems[i]).cell_volume,
                                          R(MuFirst(db, elems[i]).num_atoms))
                                ELSE Zero],
              scanned |-> SubSeq(elems, 1, IF n < 2 THEN n + 1 ELSE 2),
              failed |-> n < 2]

---------------------------------------------------------------------------
(* binary_hull, the loop over the records (lines 176-210).                 *)

AtomsPerFu(doc) == doc.stoichiometry[1][2] + doc.stoichiometry[2][2]

HasB(doc, b_elem) ==
    doc.stoichiometry[1][1] = b_elem \/ doc.stoichiometry[2][1] = b_elem

NumB(doc, b_elem) ==
    IF doc.stoichiometry[1][1] = b_elem THEN doc.stoichiometry[1][2]
    ELSE doc.stoichiometry[2][2]

EnthalpyPerB(doc, b_elem) ==
    RDiv(doc.enthalpy, R(NumB(doc, b_elem) * doc.num_fu))

\* volume[ind] (line 191).
VolumePerB(doc, b_elem) ==
    RDiv(doc.cell_volume, R(NumB(doc, b_elem) * doc.num_fu))

\* doc['stoichiometry'][1] at line 177 raises IndexError.
Short(doc) == Len(doc.stoichiometry) < 2

\* The loop of lines 176-210 does not get past doc: IndexError at line 177,
\* or exit() at line 186 when neither of the first two entries is B.
Stops(doc, b_elem) == Short(doc) \/ ~HasB(doc, b_elem)

\* The 1-based index of the first record the loop stops at, 0 when none.
FirstStop(cur, b_elem) ==
    IF \E i \in 1..Len(cur) : Stops(cur[i], b_elem)
    THEN CHOOSE i \in 1..Len(cur) :
             /\ Stops(cur[i], b_elem)
             /\ \A j \in 1..(i - 1) : ~Stops(cur[j], b_elem)
    ELSE 0

\* Mutant of FormationTerm: the potential is matched by the substring test
\* that line 204 uses, not by equality.
FormationTerm_Substring(doc, mu, j) ==
    IF IsSubstring(mu.stoichiometry[1][1], doc.stoichiometry[j][1])
    THEN RDiv(RMul(mu.enthalpy_per_atom, R(doc.stoichiometry[j][2])),
              R(AtomsPerFu(doc)))
    ELSE Zero

\* What lines 198-202 subtract for the potential mu and the entry j.
FormationTerm(doc, mu, j) ==
    IF mu.stoichiometry[1][1] = doc.stoichiometry[j][1]
    THEN RDiv(RMul(mu.enthalpy_per_atom, R(doc.stoichiometry[j][2])),
              R(AtomsPerFu(doc)))
    ELSE Zero

Formation(doc, mt) ==
    RSub(doc.enthalpy_per_atom,
         SeqSum([k \in 1..(2 * Len(doc.stoichiometry)) |->
                    FormationTerm(doc, mt[((k - 1) \div Len(doc.stoichiometry)) + 1],
                                  ((k - 1) % Len(doc.stoichiometry)) + 1)]))

\* Entries of the stoichiometry whose symbol contains x_elem (line 204).
XEntries(doc, x_elem) ==
    {j \in 1..Len(doc.stoichiometry) : IsSubstring(x_elem, doc.stoichiometry[j][1])}

Max(T) == CHOOSE m \in T : \A k \in T : k <= m

\* stoich[ind]: the last matching entry wins; 0.0 when none matches.
StoichOf(doc, x_elem) ==
    IF XEntries(doc, x_elem) = {} THEN Zero
    ELSE Norm(doc.stoichiometry[Max(XEntries(doc, x_elem))][2], AtomsPerFu(doc))

\* stoich/(1 - stoich), +inf at stoich = 1 (lines 207-210).
NumAOf(st) == IF st = One THEN Inf ELSE RDiv(st, RSub(One, st))

AnnotateDoc(doc, x_elem, b_elem) ==
    [doc EXCEPT !.ann =
        [has |-> {"enthalpy_per_b"} \cup
                 (IF XEntries(doc, x_elem) = {} THEN {} ELSE {"stoich", "num_a"}),
         stoich |-> StoichOf(doc, x_elem),
         num_a |-> NumAOf(StoichOf(doc, x_elem)),
         enthalpy_per_b |-> EnthalpyPerB(doc, b_elem),
         hull_distance |-> Zero,
         capacity |-> Zero]]

\* structures: the chemical potentials at (0, 0) and (1, 0) around the records.
StructuresOf(cur, elems, mt) ==
    <<<<Zero, Zero>>>> \o
    [i \in 1..Len(cur) |-> <<StoichOf(cur[i], elems[1]), Formation(cur[i], mt)>>] \o
    <<<<One, Zero>>>>

\* enthalpy: per unit B, with mu_enthalpy[1] first and mu_enthalpy[0] last.
EnthalpyOf(cur, elems, mu) ==
    <<mu[2]>> \o [i \in 1..Len(cur) |-> EnthalpyPerB(cur[i], elems[2])] \o <<mu[1]>>

\* volume: per unit B, with mu_volume[1] first and mu_volume[0] last
\* (lines 218-219).
VolumeOf(cur, elems, muv) ==
    <<muv[2]>> \o [i \in 1..Len(cur) |-> VolumePerB(cur[i], elems[2])] \o <<muv[1]>>

---------------------------------------------------------------------------
(* scipy.spatial.ConvexHull(structures), by its contract: hull.vertices    *)
(* indexes the extreme points of the set, one index per extreme point;     *)
(* Qhull raises QhullError when the points do not span the plane.          *)

\* Twice the signed area of the triangle p, q, r.
Orient(p, q, r) ==
    RSub(RMul(RSub(q[1], p[1]), RSub(r[2], p[2])),
         RMul(RSub(q[2], p[2]), RSub(r[1], p[1])))

\* r lies on the open ray from p through q, given that the three are
\* collinear.
SameRay(p, q, r) ==
    RLess(Zero, RAdd(RMul(RSub(q[1], p[1]), RSub(r[1], p[1])),
                     RMul(RSub(q[2], p[2]), RSub(r[2], p[2]))))

\* The line from p through q supports the point set Q at p alone: every
\* point of Q lies strictly to its left, or on it on q's side of p.
Supports(p, q, Q) ==
    \A r \in Q : \E o \in {Orient(p, q, r)} :
        RLess(Zero, o) \/ (o = Zero /\ SameRay(p, q, r))

\* p is an extreme point exactly when such a line exists (p is then outside
\* the convex hull of the other points).
ExtremePoints(pts) ==
    UNION {{p \in Q : \E q \in Q \ {p} : Supports(p, q, Q \ {p})} :
           Q \in {Range(pts)}}

\* Fewer than three points, or all on one line: Qhull has no initial simplex.
QhullFails(pts) ==
    \A i, j, k \in 1..Len(pts) : Orient(pts[i], pts[j], pts[k]) = Zero

\* The index sets hull.vertices may hold: one index for each extreme point.
VertexSets(pts) ==
    UNION {{V \in SUBSET {i \in 1..Len(pts) : pts[i] \in E} :
               /\ {pts[i] : i \in V} = E
               /\ \A i, j \in V : pts[i] = pts[j] => i = j} :
           E \in {ExtremePoints(pts)}}

---------------------------------------------------------------------------
(* binary_hull, lines 229-259: the lower hull and the hull distances.      *)

\* Mutant of LowerVertices: the sign of the test is flipped.
LowerVertices_Upper(pts, V) == {i \in V : RLeq(Zero, pts[i][2])}

\* Mutant of LowerVertices: every point with formation energy <= 0 is kept,
\* hull vertex or not.
LowerVertices_AllBelow(pts, V) == {i \in 1..Len(pts) : RLeq(pts[i][2], Zero)}

\* The vertices with formation energy <= 0 (line 235).
LowerVertices(pts, V) == {i \in V : RLeq(pts[i][2], Zero)}

\* np.argsort(hull_comp) applied to the kept vertices: their indices by
\* increasing composition.
RECURSIVE SortByComp(_, _)
SortByComp(pts, I) ==
    IF I = {} THEN <<>>
    ELSE LET m == CHOOSE i \in I :
                    \A j \in I : \/ RLess(pts[i][1], pts[j][1])
                                 \/ (pts[i][1] = pts[j][1] /\ i <= j)
         IN  <<m>> \o SortByComp(pts, I \ {m})

\* bisect.bisect_left(a, v): how many entries of the sorted a are < v.
BisectLeft(a, v) == Cardinality({k \in 1..Len(a) : RLess(a[k], v)})

\* Python's a[i] for a 0-based i that may be -1 (the last entry).
PyIndex(a, i) == IF i < 0 THEN a[Len(a) + i + 1] ELSE a[i + 1]

\* hull_dist[ind] for the point pt (lines 251-259).
HullDistOf(pt, hcomp, henergy) ==
    LET i == BisectLeft(hcomp, pt[1])
        energy_pair == <<PyIndex(henergy, i - 1), PyIndex(henergy, i)>>
        comp_pair == <<PyIndex(hcomp, i - 1), PyIndex(hcomp, i)>>
        gradient == RDiv(RSub(energy_pair[2], energy_pair[1]),
                         RSub(comp_pair[2], comp_pair[1]))
        intercept == RDiv(RSub(RAdd(energy_pair[2], energy_pair[1]),
                               RMul(gradient, RAdd(comp_pair[2], comp_pair[1]))),
                          R(2))
    IN  RSub(pt[2], RAdd(RMul(gradient, pt[1]), intercept))

HullDists(pts, hcomp, henergy) ==
    [ind \in 1..Len(pts) |-> HullDistOf(pts[ind], hcomp, henergy)]

---------------------------------------------------------------------------
(* binary_hull, lines 277-291: the stable list.                            *)

\* hull_dist[ind] <= self.hull_cutoff + 1e-12, for finite operands: with
\* dist - cutoff = n/d, that is n * 10^12 <= d (in 0.1 eV: the tolerance is
\* not rescaled, it lies far below every difference the model's inputs give).
WithinCutoff(dist, cutoff) ==
    LET diff == RSub(dist, cutoff)
    IN  /\ ~IsNaN(diff)
        /\ \/ diff.n <= 0
           \/ IsFinite(diff) /\ diff.n <= (diff.d \div 1000000) \div 1000000

\* The records cur[i] with dist[i + off] within the cutoff, in cursor order.
DocsWithin(cur, dist, cutoff, off) ==
    LET F[i \in 0..Len(cur)] ==
            IF i = 0 THEN <<>>
            ELSE IF WithinCutoff(dist[i + off], cutoff)
                 THEN Append(F[i - 1], cur[i]) ELSE F[i - 1]
    IN  F[Len(cur)]

\* match[0] and match[1] as lines 279-284 annotate them.
AnnotateMatch(mt) ==
    [i \in 1..2 |->
        [mt[i] EXCEPT !.ann =
            [has |-> {"hull_distance", "enthalpy_per_b", "num_a"},
             stoich |-> Zero,
             num_a |-> IF i = 1 THEN Inf ELSE Zero,
             enthalpy_per_b |-> mt[i].enthalpy_per_atom,
             hull_distance |-> Zero,
             capacity |-> Zero]]]

\* self.cursor after the loop of lines 286-290: hull_distance is attached
\* to the records within the cutoff, and to those only.
CursorWithDistance(cur, dist, cutoff) ==
    [i \in 1..Len(cur) |->
        IF WithinCutoff(dist[i + 1], cutoff)
        THEN [cur[i] EXCEPT !.ann.has = @ \cup {"hull_distance"},
                            !.ann.hull_distance = dist[i + 1]]
        ELSE cur[i]]

\* Mutant of HullCursorOf: the index is not shifted past the first
\* chemical potential.
HullCursorOf_NoOffset(cur, mt, dist, cutoff) ==
    <<mt[2]>> \o
    DocsWithin(cur, dist, cutoff, 0) \o
    <<mt[1]>>

HullCursorOf(cur, mt, dist, cutoff) ==
    <<mt[2]>> \o
    DocsWithin(cur, dist, cutoff, 1) \o
    <<mt[1]>>

---------------------------------------------------------------------------
(* voltage_curve (lines 347-370).                                          *)

\* stable_num: 1e5 stands in for the pure-A endpoint (lines 353-357).
StableNum(comp) ==
    [i \in 1..Len(comp) |->
        IF RSub(One, comp[i]) = Zero THEN R(100000)
        ELSE RDiv(comp[i], RSub(One, comp[i]))]

\* One pass of the loop of lines 359-363, at the 1-based index i.
VoltageAt(enth, num, mu, i) ==
    RAdd(RDiv(RNeg(RSub(enth[i], enth[i - 1])), RSub(num[i], num[i - 1])), mu[1])

\* V and x after lines 359-365: i runs from the last index down to the second.
VoltagesOf(enth, comp, mu) ==
    LET num == StableNum(comp)
        n == Len(num)
        V == [k \in 1..(n - 1) |-> VoltageAt(enth, num, mu, n - k + 1)]
    IN  Append(V, V[Len(V)])

\* Mutant of XOf: x.append(stable_num[i-1]).
XOf_Prev(comp) ==
    LET num == StableNum(comp)
        n == Len(num)
    IN  Append([k \in 1..(n - 1) |-> num[n - k]], Zero)

XOf(comp) ==
    LET num == StableNum(comp)
        n == Len(num)
    IN  Append([k \in 1..(n - 1) |-> num[n - k + 1]], Zero)

---------------------------------------------------------------------------
(* volume_curve (lines 497-512).                                           *)

\* x: stable_comp[i]/(1 - stable_comp[i]) for all but the last composition.
VolumeXOf(comp) ==
    [i \in 1..(Len(comp) - 1) |-> RDiv(comp[i], RSub(One, comp[i]))]

\* v: stable_vol[i] for all but the last composition.
VolPerYOf(vol) == [i \in 1..(Len(vol) - 1) |-> vol[i]]

---------------------------------------------------------------------------
(* The state machine: QueryConvexHull.__init__ with subcmd == 'voltage'.   *)

\* Everything but the inputs args and cursor.
InitRest ==
    /\ pc = "init"
    /\ elements = <<>>
    /\ chem_pots = <<>>
    /\ hull_cutoff = Zero
    /\ match = <<>>
    /\ mu_enthalpy = <<>>
    /\ mu_volume = <<>>
    /\ scanned = <<>>
    /\ failure = <<>>
    /\ structures = <<>>
    /\ hull_comp = <<>>
    /\ hull_energy = <<>>
    /\ hull_dist = <<>>
    /\ hull_cursor = <<>>
    /\ stable_comp = <<>>
    /\ stable_enthalpy_per_b = <<>>
    /\ stable_vol = <<>>
    /\ voltages = <<>>
    /\ x = <<>>
    /\ vol_per_y = <<>>
    /\ meta_structures = <<>>
    /\ reference_cathode = <<>>
    /\ running_average_profile = <<>>
    /\ advanced_average_profile = <<>>
    /\ diff_average_profile = <<>>
    /\ converged = FALSE
    /\ last_converged = FALSE
    /\ num_contribs = 0
    /\ num_converged = 0
    /\ delithiated = FALSE
    /\ voltage_profile = <<>>
    /\ prev = <<>>
    /\ path_structures = <<>>
    /\ count = 0
    /\ path = <<>>
    /\ num_paths = 0
    /\ below_hist = <<>>
    /\ wf_pc = "preprocess"
    /\ steps = <<>>
    /\ step_ind = 0
    /\ success = "None"
    /\ ran = <<>>
    /\ postprocess_calls = 0
    /\ relaxer_calls = <<>>
    /\ raised = ""
    /\ fl_structures = <<>>
    /\ fl_hull_dist = <<>>
    /\ fl_stable = {}

Init ==
    /\ args \in [composition : Compositions, chempots : ChempotArgs,
                 hull_cutoff : CutoffArgs, subcmd : {"voltage"}]
    /\ cursor \in Cursors(args.composition, MaxRecords)
    /\ repo = {}
    /\ InitRest

\* The runs with subcmd == 'voltage' and debug set, on Li-P queries.
InitSampler ==
    /\ args \in [composition : {<<Li, P>>}, chempots : ChempotArgs,
                 hull_cutoff : CutoffArgs, subcmd : {"voltage"}]
    /\ cursor \in CursorsOf(SamplerDocChoices, args.composition, MaxRecords)
    /\ repo = {}
    /\ InitRest

\* __init__ up to and including self.binary_hull() (lines 28-48), and
\* line 50 when binary_hull returned early.  Each \E over a one-element set
\* names a local of the code.
BinaryHull ==
    /\ pc = "init"
    /\ \E elems \in {args.composition}, pots \in {ChemPotsOf(args)},
          cutoff \in {CutoffOf(args)} :
       /\ elements' = elems
       /\ chem_pots' = pots
       /\ hull_cutoff' = cutoff
       /\ IF Len(elems) # 2
          THEN \* binary_hull prints and returns (lines 155-157); line 50 then
               \* reads self.hull_cursor, which was never assigned
               /\ pc' = "attribute_error"
               /\ failure' = Append(failure, "Cannot create binary hull")
               /\ UNCHANGED <<cursor, match, mu_enthalpy, mu_volume, scanned,
                              structures, hull_comp, hull_energy, hull_dist,
                              hull_cursor, stable_comp, stable_enthalpy_per_b,
                              stable_vol>>
          ELSE \E cp \in {GetChempots(elems, pots, repo)} :
               /\ mu_enthalpy' = cp.mu_enthalpy
               /\ mu_volume' = cp.mu_volume
               /\ scanned' = cp.scanned
               /\ IF cp.failed
                  THEN \* print_failure and exit() at lines 145-146
                       /\ pc' = "exit"
                       /\ failure' = Append(failure, "No possible chem pots found")
                       /\ match' = cp.match
                       /\ UNCHANGED <<cursor, structures, hull_comp, hull_energy,
                                      hull_dist, hull_cursor, stable_comp,
                                      stable_enthalpy_per_b, stable_vol>>
                  ELSE \E stop \in {FirstStop(cursor, elems[2])} :
                       IF stop # 0
                       THEN \* IndexError at line 177, or print_failure and
                            \* exit() at lines 185-186
                            /\ pc' = IF Short(cursor[stop]) THEN "index_error"
                                     ELSE "exit"
                            /\ failure' = IF Short(cursor[stop]) THEN failure
                                          ELSE Append(failure, "Something went wrong!")
                            /\ match' = cp.match
                            /\ cursor' = [i \in 1..Len(cursor) |->
                                             IF i < stop
                                             THEN AnnotateDoc(cursor[i], elems[1],
                                                              elems[2])
                                             ELSE cursor[i]]
                            /\ UNCHANGED <<structures, hull_comp, hull_energy,
                                           hull_dist, hull_cursor, stable_comp,
                                           stable_enthalpy_per_b, stable_vol>>
                       ELSE \E mt \in {cp.match} :
                            \E cur \in {[i \in 1..Len(cursor) |->
                                            AnnotateDoc(cursor[i], elems[1], elems[2])]},
                               pts \in {StructuresOf(cursor, elems, mt)},
                               enthalpy \in {EnthalpyOf(cursor, elems, cp.mu_enthalpy)},
                               volume \in {VolumeOf(cursor, elems, cp.mu_volume)} :
                            /\ failure' = failure
                            /\ IF QhullFails(pts)
                               THEN \* QhullError raised at line 227
                                    /\ pc' = "qhull_error"
                                    /\ match' = mt
                                    /\ cursor' = cur
                                    /\ UNCHANGED <<structures, hull_comp, hull_energy,
                                                   hull_dist, hull_cursor, stable_comp,
                                                   stable_enthalpy_per_b, stable_vol>>
                               ELSE \E V \in VertexSets(pts) :
                                    \E order \in {SortByComp(pts, LowerVertices(pts, V))} :
                                    \E hcomp \in {[k \in 1..Len(order) |-> pts[order[k]][1]]},
                                       henergy \in {[k \in 1..Len(order) |-> pts[order[k]][2]]},
                                       henthalpy \in {[k \in 1..Len(order) |-> enthalpy[order[k]]]},
                                       hvolume \in {[k \in 1..Len(order) |-> volume[order[k]]]},
                                       amt \in {AnnotateMatch(mt)} :
                                    \E dist \in {HullDists(pts, hcomp, henergy)} :
                                    \E dcur \in {CursorWithDistance(cur, dist, cutoff)} :
                                        /\ pc' = "hull"
                                        /\ match' = amt
                                        /\ cursor' = dcur
                                        /\ structures' = pts
                                        /\ hull_comp' = hcomp
                                        /\ hull_energy' = henergy
                                        /\ hull_dist' = dist
                                        /\ hull_cursor' = HullCursorOf(dcur, amt, dist, cutoff)
                                        /\ stable_comp' = hcomp
                                        /\ stable_enthalpy_per_b' = henthalpy
                                        /\ stable_vol' = hvolume
    /\ UNCHANGED <<args, repo, voltVars, trialVars, pathVars, wfVars, fl_structures, fl_hull_dist, fl_stable>>

\* self.voltage_curve(self.stable_enthalpy_per_b, self.stable_comp,
\* self.mu_enthalpy) (line 67 or 70).
VoltageCurve ==
    /\ pc = "hull"
    /\ args.subcmd = "voltage"
    /\ pc' = "voltage"
    /\ voltages' = VoltagesOf(stable_enthalpy_per_b, stable_comp, mu_enthalpy)
    /\ x' = XOf(stable_comp)
    /\ UNCHANGED <<hullVars, vol_per_y, trialVars, pathVars, wfVars, fl_structures, fl_hull_dist, fl_stable>>

\* self.volume_curve(self.stable_comp, self.stable_vol) (lines 77-78).
VolumeCurve ==
    /\ pc = "hull"
    /\ args.subcmd # "voltage"
    /\ Has(args, "volume")
    /\ pc' = "volume"
    /\ x' = VolumeXOf(stable_comp)
    /\ vol_per_y' = VolPerYOf(stable_vol)
    /\ UNCHANGED <<hullVars, voltages, trialVars, pathVars, wfVars, fl_structures, fl_hull_dist, fl_stable>>

Next ==
    \/ BinaryHull
    \/ VoltageCurve

vars == <<pc, hullVars, voltVars, trialVars, pathVars, wfVars, fl_structures, fl_hull_dist, fl_stable>>

Spec == Init /\ [][Next]_vars

---------------------------------------------------------------------------
(* QueryConvexHull.__init__ over its configurations: the composition may   *)
(* split into one, two or three symbols, chempots, hull_temp and           *)
(* hull_cutoff may each be left out, and the run is a voltage run or a     *)
(* hull run with the volume flag.                                          *)

ConfigCompositions == {<<Li>>, <<Li, P>>, <<Li, P, S>>}

\* Each optional argument is <<>> (not given) or <<value>>.
OptChempots == {<<>>, <<<<10, -20>>>>, <<<<-10, 20>>>>, <<<<0, -20>>>>}

\* hull_temp in kelvin.
OptTemps == {<<>>, <<0>>, <<1000>>}

OptCutoffs == {<<>>, <<2>>}

Modes == {"voltage", "volume"}

\* The single-element records the database may hold.
RepoDocs ==
    {MakeElementDoc(Li, -10, 8), MakeElementDoc(Li, -8, 9), MakeElementDoc(P, -20, 20)}

Repos == SUBSET RepoDocs

\* The argument dictionary with the given arguments and no others.
ArgsOf(comp, mode, pots, temp, cut) ==
    [key \in {"composition", "subcmd"}
              \cup (IF mode = "volume" THEN {"volume"} ELSE {})
              \cup (IF pots # <<>> THEN {"chempots"} ELSE {})
              \cup (IF temp # <<>> THEN {"hull_temp"} ELSE {})
              \cup (IF cut # <<>> THEN {"hull_cutoff"} ELSE {}) |->
        CASE key = "composition" -> comp
          [] key = "subcmd" -> IF mode = "voltage" THEN "voltage" ELSE "hull"
          [] key = "volume" -> TRUE
          [] key = "chempots" -> pots[1]
          [] key = "hull_temp" -> temp[1]
          [] key = "hull_cutoff" -> cut[1]]

ConfigArgs ==
    {ArgsOf(comp, mode, pots, temp, cut) :
        comp \in ConfigCompositions, mode \in Modes, pots \in OptChempots,
        temp \in OptTemps, cut \in OptCutoffs}

ConfigDocChoices == {1} \X {<<1, 1>>, <<2, 1>>} \X {-20}

InitConfig ==
    /\ args \in ConfigArgs
    /\ cursor \in CursorsOf(ConfigDocChoices, <<Li, P>>, MaxRecords)
    /\ repo \in Repos
    /\ InitRest

NextConfig ==
    \/ BinaryHull
    \/ VoltageCurve
    \/ VolumeCurve

SpecConfig == InitConfig /\ [][NextConfig]_vars

---------------------------------------------------------------------------
(* binary_hull over cursors that hold records other than A-B compounds:    *)
(* a record of another element, of a single element, of three elements.    *)

Na == <<"N", "a">>

RecordStoichs ==
    {<<<<Li, 1>>, <<P, 1>>>>,
     <<<<Li, 1>>, <<P, 2>>>>,
     <<<<Na, 1>>, <<P, 1>>>>,
     <<<<Li, 1>>, <<Na, 1>>>>,
     <<<<P, 1>>>>,
     <<<<Li, 1>>, <<P, 1>>, <<Na, 1>>>>}

RecordEnthalpySet == {-20, -12}

\* The atoms of one formula unit, every entry counted.
NumAtomsOf(st) ==
    LET F[j \in 0..Len(st)] == IF j = 0 THEN 0 ELSE F[j - 1] + st[j][2]
    IN  F[Len(st)]

\* A database record with the stoichiometry st, one formula unit per cell.
MakeRecord(id, st, epa) ==
    [id |-> id,
     stoichiometry |-> st,
     num_fu |-> 1,
     enthalpy_per_atom |-> R(epa),
     enthalpy |-> R(epa * NumAtomsOf(st)),
     cell_volume |-> R(20 * NumAtomsOf(st)),
     ann |-> NoAnnotations]

RecordCursors(n) ==
    {[i \in 1..Len(c) |-> MakeRecord(i, c[i][1], c[i][2])] :
        c \in SeqsUpTo(RecordStoichs \X RecordEnthalpySet, n)}

InitRecords ==
    /\ args \in [composition : {<<Li, P>>}, chempots : ChempotArgs,
                 hull_cutoff : CutoffArgs, subcmd : {"voltage"}]
    /\ cursor \in RecordCursors(MaxRecords)
    /\ repo = {}
    /\ InitRest

SpecRecords == InitRecords /\ [][Next]_vars

---------------------------------------------------------------------------
(* metastable_voltage_profile (lines 372-481).  The program's sizes are    *)
(* scaled down: the grid has num_divisions points instead of 100, the      *)
(* trial cap num_trials stands for 100000 and MaxDraws for the 1000 draws  *)
(* of pick_metastable_structure.  The window and the tolerance are the     *)
(* program's.                                                              *)

\* num_divisions = 100 at line 388, scaled.
num_divisions == 5

\* num_trials = 100000 at line 442, scaled.
num_trials == 2

\* The draw bound 1000 of line 411, scaled.
MaxDraws == 2

convergence_window == 3

\* The history counter num_paths stops counting here.
MaxPaths == num_trials + 2

\* chem_utils.get_capacities with the molar mass of element B: the capacity
\* is proportional to num_a (mAh/g per guest atom per host atom).
CapacityPerGuest == 800

get_capacities(num_a) == RMul(num_a, R(CapacityPerGuest))

\* np.linspace(0, 2000, num_divisions).
capacity_space == [k \in 1..num_divisions |-> Norm(2000 * (k - 1), num_divisions - 1)]

Zeros == [k \in 1..num_divisions |-> Zero]

Ones == [k \in 1..num_divisions |-> One]

\* np.abs(diff_average_profile).sum() < tolerance, tolerance = 1e-9 *
\* num_divisions: with the sum n/d that is n * 10^9 < num_divisions * d.
BelowTolerance(diff) ==
    \E total \in {SeqSum([k \in 1..Len(diff) |-> RAbs(diff[k])])} :
        /\ IsFinite(total)
        /\ total.n <= ((num_divisions * total.d) - 1) \div 1000000000

\* Lines 377-381: the candidates with their capacity attached.
WithCapacity(docs) ==
    [i \in 1..Len(docs) |->
        [docs[i] EXCEPT !.ann.has = @ \cup {"capacity"},
                        !.ann.capacity = get_capacities(docs[i].ann.num_a)]]

\* Mutant of Eligible: the test of line 414 lets an equal num_a through.
Eligible_Leq(test, last) == RLeq(test.ann.num_a, last.ann.num_a)

\* test['num_a'] < last['num_a'] (line 414).
Eligible(test, last) == RLess(test.ann.num_a, last.ann.num_a)

get_voltage_profile_segment(structure_new, structure_old) ==
    IF structure_old.ann.num_a = Inf THEN Zero
    ELSE RAdd(RDiv(RNeg(RSub(structure_new.ann.enthalpy_per_b,
                             structure_old.ann.enthalpy_per_b)),
                   RSub(structure_new.ann.num_a, structure_old.ann.num_a)),
              mu_enthalpy[1])

\* interp_steps(xspace, x, y) on the (x, y) rows of profile, in row order.
interp_steps(xspace, profile) ==
    LET F[j \in 0..Len(profile)] ==
            IF j = 0 THEN [k \in 1..Len(xspace) |-> Zero]
            ELSE [k \in 1..Len(xspace) |->
                     IF RLeq(xspace[k], profile[j][1]) THEN profile[j][2]
                     ELSE F[j - 1][k]]
    IN  F[Len(profile)]

\* Mutant of DrawsExhausted: one more draw is let through.
DrawsExhausted_Late(c) == c > MaxDraws

\* `count += 1` and `if count > 1000` (lines 410-411), for the count c
\* of the draws made so far in this call.
DrawsExhausted(c) == c + 1 > MaxDraws

\* Mutant of PoolAfter: the pool is left as it was.
PoolAfter_Kept(pool, idx) == pool

\* Mutant of PoolAfter: the candidates behind the accepted one are kept.
PoolAfter_Behind(pool, idx) == SubSeq(pool, idx + 1, Len(pool))

\* path_structures[:idx] (line 463) for the 1-based position idx of the
\* accepted candidate: the candidates in front of it.
PoolAfter(pool, idx) == SubSeq(pool, 1, idx - 1)

VecAdd(u, v) == [k \in 1..Len(u) |-> RAdd(u[k], v[k])]

VecSub(u, v) == [k \in 1..Len(u) |-> RSub(u[k], v[k])]

VecDiv(u, c) == [k \in 1..Len(u) |-> RDiv(u[k], R(c))]

CountUp(c) == IF c < MaxPaths THEN c + 1 ELSE c

\* Lines 376-442: everything before the sampling loop.
SamplerSetup ==
    /\ pc = "voltage"
    /\ pc' = "loop"
    /\ meta_structures' = WithCapacity(SubSeq(hull_cursor, 1, Len(hull_cursor) - 1))
    /\ reference_cathode' = hull_cursor[Len(hull_cursor)]
    /\ running_average_profile' = Zeros
    /\ advanced_average_profile' = Zeros
    /\ diff_average_profile' = Ones
    /\ converged' = FALSE
    /\ last_converged' = FALSE
    /\ num_contribs' = 0
    /\ num_converged' = 0
    /\ UNCHANGED <<hullVars, voltVars, pathVars, below_hist, wfVars, fl_structures, fl_hull_dist, fl_stable>>

\* One pass of the loop head, lines 443-459, up to the first call of
\* pick_metastable_structure.
LoopHead ==
    /\ pc = "loop"
    /\ \E below \in {BelowTolerance(diff_average_profile)} :
       IF below /\ num_converged > convergence_window
       THEN /\ converged' = TRUE
            /\ pc' = "done"
            /\ UNCHANGED <<last_converged, num_converged, pathVars>>
       ELSE /\ converged' = converged
            /\ last_converged' = (last_converged \/ below)
            /\ num_converged' =
                  IF ~below THEN num_converged
                  ELSE IF ~last_converged THEN 2 ELSE num_converged + 1
            /\ IF num_contribs > num_trials
               THEN /\ pc' = "done"
                    /\ UNCHANGED pathVars
               ELSE /\ pc' = "pick"
                    /\ delithiated' = FALSE
                    /\ voltage_profile' = <<>>
                    /\ prev' = reference_cathode
                    /\ path_structures' = meta_structures
                    /\ count' = 0
                    /\ path' = <<reference_cathode.ann.num_a>>
                    /\ num_paths' = CountUp(num_paths)
    /\ UNCHANGED <<hullVars, voltVars, meta_structures, reference_cathode,
                   running_average_profile, advanced_average_profile,
                   diff_average_profile, num_contribs, below_hist, wfVars, fl_structures, fl_hull_dist, fl_stable>>

\* Lines 470-479, after a path that reached num_a == 0 with the profile vp
\* (all_voltage_profiles is only ever appended to and is left out).
AveragePath(vp) ==
    IF Len(vp) # 0
    THEN \E advanced \in {VecAdd(advanced_average_profile,
                                 interp_steps(capacity_space, vp))} :
         \E diff \in {VecSub(VecDiv(advanced, num_contribs + 1),
                             running_average_profile)} :
            /\ advanced_average_profile' = advanced
            /\ num_contribs' = num_contribs + 1
            /\ diff_average_profile' = diff
            /\ running_average_profile' = VecDiv(advanced, num_contribs + 1)
            /\ below_hist' = Append(below_hist, BelowTolerance(diff))
    ELSE UNCHANGED <<advanced_average_profile, num_contribs, diff_average_profile,
                     running_average_profile, below_hist>>

\* One draw of pick_metastable_structure (lines 409-416) and, when the draw
\* is accepted, the rest of the pass of the path loop (lines 462-469) and,
\* when that ends the path, lines 470-479.
Draw ==
    /\ pc = "pick"
    /\ IF DrawsExhausted(count)
       THEN \* exit('Something went wrong...')
            /\ pc' = "exit"
            /\ count' = count + 1
            /\ UNCHANGED <<trialVars, delithiated, voltage_profile, prev,
                           path_structures, path, num_paths>>
       ELSE IF Len(path_structures) = 0
       THEN \* np.random.randint(0, 0) raises ValueError
            /\ pc' = "value_error"
            /\ count' = count + 1
            /\ UNCHANGED <<trialVars, delithiated, voltage_profile, prev,
                           path_structures, path, num_paths>>
       ELSE \E idx \in 1..Len(path_structures) :
            \E test \in {path_structures[idx]} :
            IF ~Eligible(test, prev)
            THEN /\ pc' = "pick"
                 /\ count' = count + 1
                 /\ UNCHANGED <<trialVars, delithiated, voltage_profile, prev,
                                path_structures, path, num_paths>>
            ELSE \E vp \in {IF prev.ann.num_a # Inf
                            THEN Append(voltage_profile,
                                        <<test.ann.capacity,
                                          get_voltage_profile_segment(test, prev)>>)
                            ELSE voltage_profile} :
                 /\ path_structures' = PoolAfter(path_structures, idx)
                 /\ voltage_profile' = vp
                 /\ path' = Append(path, test.ann.num_a)
                 /\ num_paths' = num_paths
                 /\ IF test.ann.num_a = Zero
                    THEN /\ delithiated' = TRUE
                         /\ prev' = prev
                         /\ count' = count + 1
                         /\ pc' = "loop"
                         /\ AveragePath(vp)
                         /\ UNCHANGED <<meta_structures, reference_cathode, converged,
                                        last_converged, num_converged>>
                    ELSE /\ delithiated' = FALSE
                         /\ prev' = test
                         /\ count' = 0
                         /\ pc' = "pick"
                         /\ UNCHANGED trialVars
    /\ UNCHANGED <<hullVars, voltVars, wfVars, fl_structures, fl_hull_dist, fl_stable>>

NextSampler ==
    \/ BinaryHull
    \/ VoltageCurve
    \/ SamplerSetup
    \/ LoopHead
    \/ Draw

\* QueryConvexHull.__init__ with subcmd == 'voltage' and debug set.
SpecSampler == InitSampler /\ [][NextSampler]_vars

---------------------------------------------------------------------------
(* IEEE 754 binary64 arithmetic, as the program's floats compute: a        *)
(* natural number of any size is a sequence of limbs, least significant    *)
(* first and without leading zero limbs; a double is a sign, an odd        *)
(* mantissa of at most 53 bits and an exponent.  Every operation rounds    *)
(* the exact result to nearest, ties to even.  Infinities, NaN, subnormals *)
(* and the sign of zero play no part in the values computed here.          *)

\* The limbs are digits in base 2^15: a product of two fits TLC's integers.
LimbBits == 15

\* The bits of a double's mantissa.
Precision == 53

\* u without its leading zero limbs.
BigTrim(u) ==
    SubSeq(u, 1, Cardinality({i \in 1..Len(u) : \E j \in i..Len(u) : u[j] # 0}))

\* u + w: the carry into limb i is 1 when some limb below i overflows and
\* every limb between the two passes the carry on.
BigAdd(u, w) ==
    LET Limb(v, i) == IF i <= Len(v) THEN v[i] ELSE 0
        Carry(i) ==
            IF \E j \in 1..(i - 1) :
                  /\ Limb(u, j) + Limb(w, j) >= 2^LimbBits
                  /\ \A k \in (j + 1)..(i - 1) :
                        Limb(u, k) + Limb(w, k) = 2^LimbBits - 1
            THEN 1 ELSE 0
    IN  BigTrim([i \in 1..((IF Len(u) > Len(w) THEN Len(u) ELSE Len(w)) + 1) |->
                    (Limb(u, i) + Limb(w, i) + Carry(i)) % 2^LimbBits])

\* u - w for u >= w, with the borrow from limb i found as the carry is.
BigSub(u, w) ==
    LET Limb(v, i) == IF i <= Len(v) THEN v[i] ELSE 0
        Borrow(i) ==
            IF \E j \in 1..(i - 1) :
                  /\ Limb(u, j) < Limb(w, j)
                  /\ \A k \in (j + 1)..(i - 1) : Limb(u, k) = Limb(w, k)
            THEN 1 ELSE 0
    IN  BigTrim([i \in 1..Len(u) |->
                    (u[i] - Limb(w, i) - Borrow(i) + 2^LimbBits) % 2^LimbBits])

BigLess(u, w) ==
    IF Len(u) # Len(w) THEN Len(u) < Len(w)
    ELSE \E i \in 1..Len(u) :
            /\ u[i] < w[i]
            /\ \A j \in (i + 1)..Len(u) : u[j] = w[j]

\* u * k for 0 <= k < 2^LimbBits: the low halves of the limbs' products
\* plus their high halves one limb up.
BigMulSmall(u, k) ==
    BigAdd([i \in 1..Len(u) |-> (u[i] * k) % 2^LimbBits],
           <<0>> \o [i \in 1..Len(u) |-> (u[i] * k) \div 2^LimbBits])

\* u * 2^n.
BigShl(u, n) ==
    BigMulSmall([i \in 1..(n \div LimbBits) |-> 0] \o u, 2^(n % LimbBits))

\* floor(u / 2^n).
BigShr(u, n) ==
    IF n \div LimbBits >= Len(u) THEN <<>>
    ELSE BigTrim([i \in 1..(Len(u) - n \div LimbBits) |->
                    (u[i + n \div LimbBits] \div 2^(n % LimbBits)) +
                    ((IF i + n \div LimbBits + 1 <= Len(u)
                      THEN u[i + n \div LimbBits + 1] ELSE 0) % 2^(n % LimbBits)) *
                        2^(LimbBits - (n % LimbBits))])

\* The number of bits of u: 0 for 0.
BigBitLen(u) ==
    IF u = <<>> THEN 0
    ELSE LimbBits * (Len(u) - 1) +
         (CHOOSE b \in 1..LimbBits : 2^(b - 1) <= u[Len(u)] /\ u[Len(u)] < 2^b)

\* The long division of u by w # 0 over the bits hi down to lo of u, from
\* the quotient and remainder st of the bits above hi: [q, r] with
\* q = floor(u / w) and r = u mod w once lo = 0.  Each step takes the next
\* bit of u into the remainder and gives the quotient its next bit; the
\* bits are split in halves to keep the evaluation shallow.  (Len(st.q) < 0
\* never holds: it has TLC work out st before going on.)
RECURSIVE BigDivRange(_, _, _, _, _)
BigDivRange(u, w, st, hi, lo) ==
    LET Bit(i) == (u[i \div LimbBits + 1] \div 2^(i % LimbBits)) % 2
        Step(q, r) ==
            IF BigLess(r, w) THEN [q |-> BigAdd(q, q), r |-> r]
            ELSE [q |-> BigAdd(BigAdd(q, q), <<1>>), r |-> BigSub(r, w)]
    IN  IF Len(st.q) < 0 THEN st
        ELSE IF hi = lo
        THEN Step(st.q, BigAdd(BigAdd(st.r, st.r),
                               IF Bit(hi) = 1 THEN <<1>> ELSE <<>>))
        ELSE BigDivRange(u, w, BigDivRange(u, w, st, hi, (hi + lo) \div 2 + 1),
                         (hi + lo) \div 2, lo)

FlZero == [s |-> 1, m |-> <<>>, e |-> 0]

\* The double nearest to s * (m + f) * 2^e, ties to even, where 0 <= f < 1
\* and sticky tells whether f # 0 (callers pass sticky only with a mantissa
\* longer than Precision).  Make gives the double its one representation,
\* the mantissa odd; Cut rounds q, the leading Precision bits of m, up or
\* not by the bits cut off below it.
FlRound(s, m, e, sticky) ==
    LET Low(v) == CHOOSE i \in 1..Len(v) : v[i] # 0 /\ \A j \in 1..(i - 1) : v[j] = 0
        TrailingZeros(v) ==
            LimbBits * (Low(v) - 1) +
            (CHOOSE b \in 0..(LimbBits - 1) :
                v[Low(v)] % 2^b = 0 /\ (v[Low(v)] \div 2^b) % 2 = 1)
        Make(v, ev) ==
            IF v = <<>> THEN FlZero
            ELSE [s |-> s, m |-> BigShr(v, TrailingZeros(v)), e |-> ev + TrailingZeros(v)]
        Up(q, rem, half) ==
            \/ BigLess(half, rem)
            \/ rem = half /\ (sticky \/ q[1] % 2 = 1)
        Cut(cut, q) ==
            Make(IF Up(q, BigSub(m, BigShl(q, cut)), BigShl(<<1>>, cut - 1))
                 THEN BigAdd(q, <<1>>) ELSE q,
                 e + cut)
    IN  IF BigBitLen(m) <= Precision THEN Make(m, e)
        ELSE Cut(BigBitLen(m) - Precision, BigShr(m, BigBitLen(m) - Precision))

\* float(i) for an integer below 2^45 in size.
FlOfInt(i) ==
    FlRound(IF i < 0 THEN -1 ELSE 1,
            BigTrim(<<(IF i < 0 THEN -i ELSE i) % 2^LimbBits,
                      ((IF i < 0 THEN -i ELSE i) \div 2^LimbBits) % 2^LimbBits,
                      (IF i < 0 THEN -i ELSE i) \div 2^(2 * LimbBits)>>),
            0, FALSE)

FlNeg(a) == IF a.m = <<>> THEN a ELSE [a EXCEPT !.s = -a.s]

\* a + b: the exact sum of the mantissas brought to the lower exponent,
\* rounded.
FlAdd(a, b) ==
    LET Aligned(ma, mb, e) ==
            IF a.s = b.s THEN FlRound(a.s, BigAdd(ma, mb), e, FALSE)
            ELSE IF BigLess(ma, mb) THEN FlRound(b.s, BigSub(mb, ma), e, FALSE)
            ELSE FlRound(a.s, BigSub(ma, mb), e, FALSE)
    IN  IF a.m = <<>> THEN b
        ELSE IF b.m = <<>> THEN a
        ELSE IF a.e <= b.e THEN Aligned(a.m, BigShl(b.m, b.e - a.e), a.e)
        ELSE Aligned(BigShl(a.m, a.e - b.e), b.m, b.e)

\* a * b: the exact product of the mantissas (of at most four limbs each),
\* rounded.
FlMul(a, b) ==
    LET Term(i) ==
            IF i <= Len(b.m)
            THEN [j \in 1..(i - 1) |-> 0] \o BigMulSmall(a.m, b.m[i])
            ELSE <<>>
    IN  IF a.m = <<>> \/ b.m = <<>> THEN FlZero
        ELSE FlRound(a.s * b.s,
                     BigAdd(BigAdd(Term(1), Term(2)), BigAdd(Term(3), Term(4))),
                     a.e + b.e, FALSE)

\* a / b for b # 0 (no division here has a zero divisor): the quotient of
\* the mantissas to Precision + 2 bits or more, rounded with the remainder
\* as the sticky bit.
FlDiv(a, b) ==
    LET Quotient(k, d) == FlRound(a.s * b.s, d.q, a.e - b.e - k, d.r # <<>>)
        By(k) ==
            Quotient(k, BigDivRange(BigShl(a.m, k), b.m, [q |-> <<>>, r |-> <<>>],
                                    BigBitLen(a.m) + k - 1, 0))
    IN  IF a.m = <<>> \/ b.m = <<>> THEN FlZero
        ELSE By(Precision + 2 + BigBitLen(b.m) - BigBitLen(a.m))

\* a < b: the difference is below 0 (rounding keeps the sign of the exact
\* difference).
FlLess(a, b) == FlAdd(a, FlNeg(b)).s = -1

---------------------------------------------------------------------------
(* binary_hull in binary64: the numbers of lines 190-205 and 249-291 as    *)
(* the program computes them, for the hull binary_hull found.              *)

\* An energy of the model, r/10 eV, as the double the program holds.
FlOfEnergy(r) == FlDiv(FlOfInt(r.n), FlOfInt(10 * r.d))

\* 1e-12.
FlTolerance == [s |-> 1, m |-> <<27153, 603, 24166, 140>>, e |-> -92]

\* formation[ind] (lines 190 and 198-202): the terms are subtracted one by
\* one, for each potential and each entry of the stoichiometry; k counts
\* the passes and acc is formation[ind] so far.
RECURSIVE FlFormationFrom(_, _, _, _)
FlFormationFrom(doc, mt, k, acc) ==
    IF k > 2 * Len(doc.stoichiometry) THEN acc
    ELSE IF mt[((k - 1) \div Len(doc.stoichiometry)) + 1].stoichiometry[1][1] =
            doc.stoichiometry[((k - 1) % Len(doc.stoichiometry)) + 1][1]
    THEN FlFormationFrom(doc, mt, k + 1,
             FlAdd(acc,
                   FlNeg(FlDiv(FlMul(FlOfEnergy(mt[((k - 1) \div
                                                    Len(doc.stoichiometry)) + 1]
                                                    .enthalpy_per_atom),
                                     FlOfInt(doc.stoichiometry[((k - 1) %
                                                 Len(doc.stoichiometry)) + 1][2])),
                               FlOfInt(AtomsPerFu(doc))))))
    ELSE FlFormationFrom(doc, mt, k + 1, acc)

\* structures (lines 214-223) in doubles, with stoich[ind] =
\* elem[1]/float(atoms_per_fu) (line 205).
FlStructuresOf(cur, elems, mt) ==
    LET Stoich(doc) ==
            IF XEntries(doc, elems[1]) = {} THEN FlZero
            ELSE FlDiv(FlOfInt(doc.stoichiometry[Max(XEntries(doc, elems[1]))][2]),
                       FlOfInt(AtomsPerFu(doc)))
    IN  <<<<FlZero, FlZero>>>> \o
        [i \in 1..Len(cur) |->
            <<Stoich(cur[i]),
              FlFormationFrom(cur[i], mt, 1, FlOfEnergy(cur[i].enthalpy_per_atom))>>] \o
        <<<<FlOfInt(1), FlZero>>>>

\* The point of structures that is the k-th lower-hull vertex.
VertexIndex(k) ==
    CHOOSE ind \in 1..Len(structures) :
        /\ structures[ind] = <<hull_comp[k], hull_energy[k]>>
        /\ \A j \in 1..(ind - 1) : structures[j] # structures[ind]

\* The point ind of structures is a lower-hull vertex.
IsVertex(ind) ==
    \E k \in 1..Len(hull_comp) : structures[ind] = <<hull_comp[k], hull_energy[k]>>

\* hull_dist[ind] for the point pt (lines 251-259): At takes the index
\* bisect_left returns, Dist the pairs and the gradient.
FlHullDistOf(pt, hcomp, henergy) ==
    LET Dist(e0, e1, c0, c1, gradient) ==
            FlAdd(pt[2],
                  FlNeg(FlAdd(FlMul(gradient, pt[1]),
                              FlDiv(FlAdd(FlAdd(e1, e0),
                                          FlNeg(FlMul(gradient, FlAdd(c1, c0)))),
                                    FlOfInt(2)))))
        At(i) ==
            Dist(PyIndex(henergy, i - 1), PyIndex(henergy, i),
                 PyIndex(hcomp, i - 1), PyIndex(hcomp, i),
                 FlDiv(FlAdd(PyIndex(henergy, i), FlNeg(PyIndex(henergy, i - 1))),
                       FlAdd(PyIndex(hcomp, i), FlNeg(PyIndex(hcomp, i - 1)))))
    IN  At(Cardinality({k \in 1..Len(hcomp) : FlLess(hcomp[k], pt[1])}))

\* The test without its tolerance.
FlWithinCutoff_NoTolerance(dist, cutoff) == ~FlLess(FlOfEnergy(cutoff), dist)

\* hull_dist[ind] <= self.hull_cutoff + 1e-12 (line 287).
FlWithinCutoff(dist, cutoff) ==
    ~FlLess(FlAdd(FlOfEnergy(cutoff), FlTolerance), dist)

\* Lines 190-291 once more, in doubles, after binary_hull.
FloatHull ==
    /\ pc = "hull"
    /\ fl_hull_dist = <<>>
    /\ \E pts \in {FlStructuresOf(cursor, elements, match)} :
       \E hcomp \in {[k \in 1..Len(hull_comp) |-> pts[VertexIndex(k)][1]]},
          henergy \in {[k \in 1..Len(hull_comp) |-> pts[VertexIndex(k)][2]]} :
       \E dist \in {[ind \in 1..Len(pts) |-> FlHullDistOf(pts[ind], hcomp, henergy)]} :
          /\ fl_structures' = pts
          /\ fl_hull_dist' = dist
          /\ fl_stable' = {i \in 1..Len(cursor) :
                              FlWithinCutoff(fl_hull_dist'[i + 1], hull_cutoff)}
    /\ UNCHANGED <<pc, hullVars, voltVars, trialVars, pathVars, wfVars>>

\* Li-P queries that returned one record, among them Li2P3 and Li3P2.
InitFloat ==
    /\ args \in [composition : {<<Li, P>>}, chempots : ChempotArgs,
                 hull_cutoff : CutoffArgs, subcmd : {"voltage"}]
    /\ cursor \in {c \in CursorsOf({1} \X (Formulas \cup {<<2, 3>>, <<3, 2>>}) \X
                                   {-23, -21, -20, -18, -12},
                                   args.composition, 1) : Len(c) = 1}
    /\ repo = {}
    /\ InitRest

NextFloat ==
    \/ BinaryHull
    \/ FloatHull

\* binary_hull, then its numbers in doubles.
SpecFloat == InitFloat /\ [][NextFloat]_vars

---------------------------------------------------------------------------
(* matador.workflows.Workflow (src/matador/workflows/workflows.py):        *)
(* __init__ runs preprocess, run_steps and postprocess.  A step is given   *)
(* by what its function does when WorkflowStep.run_step calls it.          *)

\* Most steps a workflow's preprocess adds in the model.
MaxSteps == 3

\* A step's function returns True, False or None, raises RuntimeError, or
\* raises an exception of another class.
StepOutcomes == {"True", "False", "None", "RuntimeError", "OtherError"}

\* Mutant of RelaxerCallOf: the results are always moved as completed.
RelaxerCallOf_Completed(suc) == "mv_to_completed"

\* postprocess, lines 83-88: `if self.success`.
RelaxerCallOf(suc) == IF suc = "True" THEN "mv_to_completed" ELSE "mv_to_bad"

\* Mutant of Handled: no exception of a step is taken as RuntimeError.
Handled_Never(outcome) == FALSE

\* `except RuntimeError` (lines 119 and 230): the exception of a step that
\* run_step re-raises and run_steps handles.
Handled(outcome) == outcome = "RuntimeError"

\* self.preprocess() (line 59): the subclass adds its steps with add_step.
Preprocess ==
    /\ wf_pc = "preprocess"
    /\ steps' \in SeqsUpTo(StepOutcomes, MaxSteps)
    /\ wf_pc' = "run_steps"
    /\ UNCHANGED <<pc, hullVars, voltVars, trialVars, pathVars, fl_structures, fl_hull_dist, fl_stable, step_ind, success,
                   ran, postprocess_calls, relaxer_calls, raised>>

\* run_steps up to the loop (lines 106-112): without steps RuntimeError is
\* raised at line 110 and handled at lines 119-123.
RunSteps ==
    /\ wf_pc = "run_steps"
    /\ IF steps = <<>>
       THEN /\ success' = "False"
            /\ wf_pc' = "failed"
            /\ UNCHANGED step_ind
       ELSE /\ step_ind' = 1
            /\ wf_pc' = "step"
            /\ UNCHANGED success
    /\ UNCHANGED <<pc, hullVars, voltVars, trialVars, pathVars, fl_structures, fl_hull_dist, fl_stable, steps, ran,
                   postprocess_calls, relaxer_calls, raised>>

\* One pass of the loop of lines 112-115: step.run_step (lines 227-248)
\* returns what the function returned, or lets its exception through;
\* RuntimeError is handled at lines 119-123, no other exception is handled
\* anywhere.
RunStep ==
    /\ wf_pc = "step"
    /\ step_ind <= Len(steps)
    /\ ran' = Append(ran, step_ind)
    /\ IF Handled(steps[step_ind])
       THEN /\ success' = "False"
            /\ wf_pc' = "failed"
            /\ UNCHANGED <<step_ind, raised>>
       ELSE IF steps[step_ind] = "OtherError"
       THEN /\ wf_pc' = "crashed"
            /\ raised' = "OtherError"
            /\ UNCHANGED <<step_ind, success>>
       ELSE /\ step_ind' = step_ind + 1
            /\ UNCHANGED <<wf_pc, success, raised>>
    /\ UNCHANGED <<pc, hullVars, voltVars, trialVars, pathVars, fl_structures, fl_hull_dist, fl_stable, steps,
                   postprocess_calls, relaxer_calls>>

\* self.success = True (line 117), after the loop.
FinishSteps ==
    /\ wf_pc = "step"
    /\ step_ind > Len(steps)
    /\ success' = "True"
    /\ wf_pc' = "postprocess"
    /\ UNCHANGED <<pc, hullVars, voltVars, trialVars, pathVars, fl_structures, fl_hull_dist, fl_stable, steps, step_ind,
                   ran, postprocess_calls, relaxer_calls, raised>>

\* self.postprocess(), at line 67 or, after RuntimeError, at line 64
\* followed by `raise exc`.
Postprocess ==
    /\ wf_pc \in {"postprocess", "failed"}
    /\ postprocess_calls' = postprocess_calls + 1
    /\ relaxer_calls' = Append(relaxer_calls, RelaxerCallOf(success))
    /\ IF wf_pc = "failed"
       THEN /\ wf_pc' = "raised"
            /\ raised' = "RuntimeError"
       ELSE /\ wf_pc' = "done"
            /\ UNCHANGED raised
    /\ UNCHANGED <<pc, hullVars, voltVars, trialVars, pathVars, fl_structures, fl_hull_dist, fl_stable, steps, step_ind,
                   success, ran>>

\* No hull analysis runs beside the workflow.
InitWorkflow ==
    /\ args = [composition |-> <<Li, P>>, subcmd |-> "hull"]
    /\ cursor = <<>>
    /\ repo = {}
    /\ InitRest

NextWorkflow ==
    \/ Preprocess
    \/ RunSteps
    \/ RunStep
    \/ FinishSteps
    \/ Postprocess

SpecWorkflow == InitWorkflow /\ [][NextWorkflow]_vars

---------------------------------------------------------------------------
(* Properties of binary_hull and voltage_curve.                            *)

HullDone == pc \in {"hull", "voltage"}

\* The number of atoms of the element elem in one formula unit of doc.
CountOf(doc, elem) ==
    LET F[j \in 0..Len(doc.stoichiometry)] ==
            IF j = 0 THEN 0
            ELSE F[j - 1] + (IF doc.stoichiometry[j][1] = elem
                             THEN doc.stoichiometry[j][2] ELSE 0)
    IN  F[Len(doc.stoichiometry)]

\* C1: after binary_hull every point of the point set (the two chemical
\* potentials and every record) has a hull distance >= 0: none lies below
\* the line through the pair of lower-hull vertices bisect_left brackets it
\* with.
C1_HullDistanceNonNegative ==
    HullDone =>
        /\ Len(hull_dist) = Len(cursor) + 2
        /\ \A ind \in 1..Len(hull_dist) : RLeq(Zero, hull_dist[ind])

\* A record strictly above the hull next to a record that is a hull vertex.
C1_Witness ==
    /\ HullDone
    /\ Len(hull_comp) >= 3
    /\ \E ind \in 2..(Len(hull_dist) - 1) : RLess(Zero, hull_dist[ind])
    /\ \E ind \in 2..(Len(hull_dist) - 1) : hull_dist[ind] = Zero

\* C2: hull_comp is strictly increasing, starts at exactly 0 and ends at
\* exactly 1, both with formation energy exactly 0, and so has at least two
\* entries.
C2_HullCompIncreasing ==
    HullDone =>
        /\ Len(hull_comp) >= 2
        /\ Len(hull_energy) = Len(hull_comp)
        /\ \A k \in 1..(Len(hull_comp) - 1) : RLess(hull_comp[k], hull_comp[k + 1])
        /\ hull_comp[1] = Zero
        /\ hull_comp[Len(hull_comp)] = One
        /\ hull_energy[1] = Zero
        /\ hull_energy[Len(hull_energy)] = Zero

\* A hull with two stable compounds between the chemical potentials.
C2_Witness == HullDone /\ Len(hull_comp) >= 4

\* C3: a record is in hull_cursor exactly when its hull distance is within
\* the cutoff; a record above the cutoff is left out of hull_cursor and is
\* still a point of structures with its hull_dist.
C3_StableListIffWithinCutoff ==
    HullDone =>
        /\ Len(structures) = Len(cursor) + 2
        /\ Len(hull_cursor) >= 2
        /\ hull_cursor[1] = match[2]
        /\ hull_cursor[Len(hull_cursor)] = match[1]
        /\ \A i \in 1..Len(cursor) :
              (\E k \in 2..(Len(hull_cursor) - 1) : hull_cursor[k] = cursor[i])
                  <=> RLeq(hull_dist[i + 1], hull_cutoff)
        /\ \A k \in 2..(Len(hull_cursor) - 1) :
              \E i \in 1..Len(cursor) : hull_cursor[k] = cursor[i]

\* The spec's scenario 2: two records at stoich 1/2 with formation energies
\* -0.5 and -0.3 eV and cutoff 0: the second is 0.2 eV above the hull, is
\* not in hull_cursor and is in the point set.
C3_Witness ==
    /\ HullDone
    /\ hull_cutoff = Zero
    /\ Len(cursor) = 2
    /\ structures[2] = <<Norm(1, 2), R(-5)>>
    /\ structures[3] = <<Norm(1, 2), R(-3)>>
    /\ hull_dist[3] = R(2)
    /\ Len(hull_cursor) = 3
    /\ hull_cursor[2] = cursor[1]

\* C4: the formation energy of a record in the point set is its
\* enthalpy_per_atom minus, for each of the two chemical potentials, the
\* potential times the count of its element over the atoms per formula unit.
C4_FormationEnergy ==
    HullDone =>
        \A i \in 1..Len(cursor) :
            structures[i + 1][2] =
                RSub(cursor[i].enthalpy_per_atom,
                     RAdd(RDiv(RMul(mu_enthalpy[1],
                                    R(CountOf(cursor[i], elements[1]))),
                               R(CountOf(cursor[i], elements[1]) +
                                 CountOf(cursor[i], elements[2]))),
                          RDiv(RMul(mu_enthalpy[2],
                                    R(CountOf(cursor[i], elements[2]))),
                               R(CountOf(cursor[i], elements[1]) +
                                 CountOf(cursor[i], elements[2])))))

\* The spec's scenario 1: references A = -1.0 and B = -2.0 eV and a 1:1
\* compound at -2.0 eV per atom give -0.5 eV; and a 1:2 compound.
C4_Witness ==
    /\ HullDone
    /\ mu_enthalpy = <<R(-10), R(-20)>>
    /\ Len(cursor) = 2
    /\ CountOf(cursor[1], elements[1]) = 1
    /\ CountOf(cursor[1], elements[2]) = 1
    /\ cursor[1].enthalpy_per_atom = R(-20)
    /\ structures[2][2] = R(-5)
    /\ CountOf(cursor[2], elements[2]) = 2

\* C5: for any two distinct target symbols A and B, S and Si included,
\* every record gets stoich = count of A / atoms per formula unit and
\* num_a = stoich / (1 - stoich).
C5_StoichIsMoleFractionOfA ==
    HullDone =>
        \A i \in 1..Len(cursor) :
            /\ {"stoich", "num_a"} \subseteq cursor[i].ann.has
            /\ cursor[i].ann.stoich =
                  Norm(CountOf(cursor[i], elements[1]),
                       CountOf(cursor[i], elements[1]) +
                       CountOf(cursor[i], elements[2]))
            /\ cursor[i].ann.num_a =
                  Norm(CountOf(cursor[i], elements[1]),
                       CountOf(cursor[i], elements[2]))

\* C6: voltage_curve on n >= 2 stable points gives n (x, voltage) entries:
\* for i = n-1 down to 1 (0-based) the voltage
\* -(E[i] - E[i-1]) / (num_a[i] - num_a[i-1]) + mu_A at x = num_a[i], then
\* the last voltage again at x = 0; x is strictly decreasing.  num_a is
\* voltage_curve's own conversion of the compositions.
C6_VoltageCurveShape ==
    pc = "voltage" =>
        LET n == Len(stable_comp)
            num_a == StableNum(stable_comp)
            E == stable_enthalpy_per_b
        IN  /\ n >= 2
            /\ Len(voltages) = n
            /\ Len(x) = n
            /\ \A i \in 1..(n - 1) :
                  \* 0-based i is entry n-1-i (0-based), i.e. n-i (1-based)
                  /\ voltages[n - i] =
                        RAdd(RDiv(RNeg(RSub(E[i + 1], E[i])),
                                  RSub(num_a[i + 1], num_a[i])),
                             mu_enthalpy[1])
                  /\ x[n - i] = num_a[i + 1]
            /\ voltages[n] = voltages[n - 1]
            /\ x[n] = Zero
            /\ \A k \in 1..(n - 1) : RLess(x[k + 1], x[k])

\* A curve over four stable points with two different voltages.
C6_Witness ==
    /\ pc = "voltage"
    /\ Len(stable_comp) = 4
    /\ voltages[1] # voltages[2]

---------------------------------------------------------------------------
(* Properties of metastable_voltage_profile.                               *)

Sampling == pc \in {"loop", "pick", "done", "exit", "value_error"}

\* C7: every sampled path, from the pure-A reference to the structure that
\* ends it, is strictly decreasing in num_a.
C7_PathStrictlyDecreasing ==
    Sampling =>
        \A k \in 1..(Len(path) - 1) : RLess(path[k + 1], path[k])

\* A completed path through two compounds: reference, compound, compound,
\* pure B.
C7_Witness ==
    /\ pc = "loop"
    /\ delithiated
    /\ Len(path) = 4
    /\ path[1] = Inf
    /\ path[4] = Zero

\* C8: the sampling loop stops after at most num_trials sampled paths, for
\* every candidate pool: no more than num_trials paths are ever started.
C8_AtMostNumTrialsPaths ==
    Sampling => num_paths <= num_trials

\* The change of the running average with the j-th averaged path was below
\* the tolerance for each of the last convergence_window averaged paths.
WindowBelow ==
    /\ Len(below_hist) >= convergence_window
    /\ \A j \in (Len(below_hist) - convergence_window + 1)..Len(below_hist) :
          below_hist[j]

\* C9: convergence is declared only when the L1 change of the running
\* average was below the tolerance for a window of 3 consecutive paths;
\* only iterations that added a path to the average count.
C9_ConvergedOnlyAfterWindow ==
    converged => WindowBelow

\* C10: after each completed path the trial counter equals the number of
\* completed paths (every path started has been completed when the loop is
\* at its head), and the running average is the accumulated sum of their
\* resampled profiles over that number.
C10_EveryCompletedPathCounted ==
    (pc = "loop" /\ num_paths > 0) =>
        /\ num_contribs = num_paths
        /\ \A k \in 1..num_divisions :
              RMul(running_average_profile[k], R(num_paths)) =
                  advanced_average_profile[k]

\* The candidate pool holds two structures and they differ in num_a.
TwoCandidates ==
    /\ Len(meta_structures) = 2
    /\ meta_structures[1].ann.num_a # meta_structures[2].ann.num_a

\* The indices pick_metastable_structure may return from the current pool.
EligibleIndices ==
    {idx \in 1..Len(path_structures) : Eligible(path_structures[idx], prev)}

\* C11: with only two candidate structures that differ in num_a no random
\* choice changes the path (every draw has exactly one structure it can
\* accept), and convergence is declared on the first trial: no second path
\* is started.
C11_TwoCandidatesOnePath ==
    (Sampling /\ TwoCandidates) =>
        /\ pc = "pick" => Cardinality(EligibleIndices) = 1
        /\ num_paths <= 1

---------------------------------------------------------------------------
(* Properties of __init__ and get_chempots.                                *)

\* C12: when explicit chemical potentials are supplied, every positive
\* value is negated and every other value is kept, so both resolved
\* potentials are <= 0 (the rule would change neither again); each is
\* wrapped as a reference record with num_fu = 1 and that enthalpy_per_atom,
\* and the database is not looked up.
C12_ExplicitChempots ==
    (pc # "init" /\ Has(args, "chempots")) =>
        /\ \A i \in 1..2 :
              /\ args.chempots[i] > 0 => chem_pots[i] = R(0 - args.chempots[i])
              /\ args.chempots[i] <= 0 => chem_pots[i] = R(args.chempots[i])
              /\ RLeq(chem_pots[i], Zero)
        /\ scanned = <<>>
        /\ Len(elements) = 2 =>
              \A i \in 1..2 :
                  /\ match[i].num_fu = 1
                  /\ match[i].enthalpy_per_atom = chem_pots[i]
                  /\ mu_enthalpy[i] = chem_pots[i]

\* Potentials given as 1.0 and -2.0 eV: the first is negated, the second
\* kept, and the hull is built on them.
C12_Witness ==
    /\ pc = "hull"
    /\ Has(args, "chempots")
    /\ args.chempots = <<10, -20>>
    /\ chem_pots = <<R(-10), R(-20)>>
    /\ match[1].enthalpy_per_atom = R(-10)

\* The database holds no single-element record of the element elem.
NoCandidateFor(elem) == \A d \in repo : d.stoichiometry # <<<<elem, 1>>>>

\* Nothing of the hull, the stable list or the curves exists.
NothingBuilt ==
    /\ structures = <<>>
    /\ hull_comp = <<>>
    /\ hull_dist = <<>>
    /\ hull_cursor = <<>>
    /\ stable_comp = <<>>
    /\ stable_vol = <<>>
    /\ voltages = <<>>
    /\ x = <<>>
    /\ vol_per_y = <<>>

\* C13: without explicit chemical potentials, when the database holds no
\* single-element candidate for one of the two target elements,
\* get_chempots reports the failure and the analysis stops there: no hull,
\* stable list, voltage curve or volume curve is produced.
C13_NoCandidateAborts ==
    (/\ pc # "init"
     /\ ~Has(args, "chempots")
     /\ Len(args.composition) = 2
     /\ \E i \in 1..2 : NoCandidateFor(args.composition[i])) =>
        /\ pc = "exit"
        /\ failure = <<"No possible chem pots found">>
        /\ NothingBuilt

\* Element A was resolved from the database and element B has no candidate.
C13_Witness ==
    /\ pc = "exit"
    /\ ~Has(args, "chempots")
    /\ scanned = <<Li, P>>
    /\ match[1] # <<>>
    /\ match[2] = <<>>
    /\ NoCandidateFor(P)

\* C14: when the composition does not split into exactly two elements,
\* binary_hull reports the configuration error, resolves no chemical
\* potentials and builds no hull, and the analysis ends there as that
\* reported error: __init__ goes on to nothing else.
C14_WrongArityAborts ==
    (pc # "init" /\ Len(args.composition) # 2) =>
        /\ failure = <<"Cannot create binary hull">>
        /\ match = <<>>
        /\ scanned = <<>>
        /\ NothingBuilt
        /\ pc = "exit"

---------------------------------------------------------------------------
(* Properties of the records binary_hull takes.                            *)

\* doc has an entry whose element is neither of the two target elements.
HasForeignElement(doc, elems) ==
    \E j \in 1..Len(doc.stoichiometry) :
        doc.stoichiometry[j][1] \notin {elems[1], elems[2]}

\* C15: a record with an element that is neither target element is
\* detected as a data-consistency error: binary_hull never completes a hull
\* in which such a record has a formation energy and a point of its own.
C15_ForeignElementDetected ==
    (pc \in {"hull", "voltage"}) =>
        \A i \in 1..Len(cursor) : ~HasForeignElement(cursor[i], elements)

\* C16: binary_hull accepts records whose stoichiometry has length 1: it
\* does not fail on them.
C16_SingleElementRecordAccepted ==
    (\E i \in 1..Len(cursor) : Len(cursor[i].stoichiometry) = 1) =>
        pc # "index_error"

\* C17: after binary_hull every input record carries stoich, num_a,
\* enthalpy_per_b and hull_distance, whatever its hull distance and the
\* cutoff.
C17_EveryRecordAnnotated ==
    HullDone =>
        \A i \in 1..Len(cursor) :
            {"stoich", "num_a", "enthalpy_per_b", "hull_distance"}
                \subseteq cursor[i].ann.has

---------------------------------------------------------------------------
(* Properties of volume_curve and of the cutoff.                           *)

\* C18: volume_curve drops the pure-A endpoint and gives, for each
\* remaining stable composition, the volume per B divided by the pure-B
\* endpoint's volume (so the pure-B entry is 1), indexed by
\* num_a = stoich/(1 - stoich).
C18_VolumeCurveRatios ==
    pc = "volume" =>
        /\ Len(x) = Len(stable_comp) - 1
        /\ Len(vol_per_y) = Len(stable_comp) - 1
        /\ \A i \in 1..(Len(stable_comp) - 1) :
              /\ x[i] = RDiv(stable_comp[i], RSub(One, stable_comp[i]))
              /\ vol_per_y[i] = RDiv(stable_vol[i], stable_vol[1])
        /\ vol_per_y[1] = One

\* C19: the cutoff is hull_temp * 8.61733e-5 eV whenever a temperature is
\* given, even if hull_cutoff is given too; otherwise it is hull_cutoff
\* when that is given; otherwise 0.
C19_TemperatureTakesPrecedence ==
    pc # "init" =>
        /\ Has(args, "hull_temp") =>
              hull_cutoff = Norm(args.hull_temp * 861733, 1000000000)
        /\ (~Has(args, "hull_temp") /\ Has(args, "hull_cutoff")) =>
              hull_cutoff = R(args.hull_cutoff)
        /\ (~Has(args, "hull_temp") /\ ~Has(args, "hull_cutoff")) =>
              hull_cutoff = Zero

\* 1000 K and a cutoff of 0.2 eV are both given: the hull is built with
\* the cutoff 0.0861733 eV.
C19_Witness ==
    /\ pc = "hull"
    /\ Has(args, "hull_temp")
    /\ Has(args, "hull_cutoff")
    /\ args.hull_temp = 1000
    /\ args.hull_cutoff = 2
    /\ hull_cutoff = Norm(861733, 1000000)

---------------------------------------------------------------------------
(* Properties of Workflow.                                                 *)

\* C20: success becomes True only after the final step has completed and
\* before postprocess runs; postprocess is called exactly once per
\* workflow, when run_steps completes and when it raises RuntimeError, and
\* it calls exactly one of mv_to_completed (success True) or mv_to_bad.
C20_PostprocessOnceAfterSuccess ==
    /\ success = "True" => (steps # <<>> /\ ran = [i \in 1..Len(steps) |-> i])
    /\ wf_pc = "postprocess" => (success = "True" /\ postprocess_calls = 0)
    /\ postprocess_calls <= 1
    /\ Len(relaxer_calls) = postprocess_calls
    /\ wf_pc \in {"done", "raised"} =>
          /\ postprocess_calls = 1
          /\ success = "True" => relaxer_calls = <<"mv_to_completed">>
          /\ success # "True" => relaxer_calls = <<"mv_to_bad">>
    /\ wf_pc = "done" => success = "True"
    /\ wf_pc = "raised" => (success = "False" /\ raised = "RuntimeError")

\* The second of two steps raised RuntimeError: postprocess ran once, the
\* results were moved with mv_to_bad and RuntimeError left __init__.
C20_Witness ==
    /\ wf_pc = "raised"
    /\ steps = <<"True", "RuntimeError">>
    /\ ran = <<1, 2>>
    /\ postprocess_calls = 1
    /\ relaxer_calls = <<"mv_to_bad">>

\* C21: if some step's function raises RuntimeError or returns a false
\* success value the workflow ends with success False, the results are
\* moved with mv_to_bad and RuntimeError reaches the caller; success is
\* True only when every step succeeded.
C21_AnyFailedStepFailsWorkflow ==
    /\ (/\ wf_pc \in {"done", "raised"}
        /\ \E i \in Range(ran) : steps[i] \in {"RuntimeError", "False"}) =>
          /\ success = "False"
          /\ relaxer_calls = <<"mv_to_bad">>
          /\ raised = "RuntimeError"
    /\ success = "True" =>
          \A i \in Range(ran) : steps[i] \notin {"RuntimeError", "False"}

\* C29: run_steps runs the steps in the order they were added, each at most
\* once; once a step raises RuntimeError no later step is run and success
\* is False; a workflow without steps fails the same way (RuntimeError,
\* success False) and runs nothing.
C29_StepsInOrderUntilRuntimeError ==
    /\ Len(ran) <= Len(steps)
    /\ ran = [i \in 1..Len(ran) |-> i]
    /\ \A i \in 1..Len(ran) :
          steps[i] = "RuntimeError" =>
             /\ i = Len(ran)
             /\ success = "False"
             /\ wf_pc \in {"failed", "raised"}
    /\ (steps = <<>> /\ wf_pc \notin {"preprocess", "run_steps"}) =>
          /\ ran = <<>>
          /\ success = "False"
          /\ wf_pc \in {"failed", "raised"}
    /\ wf_pc = "raised" => raised = "RuntimeError"

\* Three steps were added and the second raised RuntimeError: the first two
\* ran in order, the third never did, and RuntimeError left __init__.
C29_Witness ==
    /\ wf_pc = "raised"
    /\ steps = <<"True", "RuntimeError", "True">>
    /\ ran = <<1, 2>>
    /\ success = "False"
    /\ raised = "RuntimeError"

---------------------------------------------------------------------------
(* Properties of one sampled path (lines 456-469).                         *)

\* C23: each sampled path goes from the reference through walking to
\* delithiated (the accepted structure has num_a == 0) or to aborted; the
\* pool strictly shrinks at every accepted step, so a path ends,
\* delithiated or aborted, after at most as many accepted steps as the pool
\* had entries at its start (and at most MaxDraws draws for each).  First
\* the states of one path: it starts at the pure-A reference, it has ended
\* with success exactly when the structure accepted last has num_a == 0, and
\* each of its Len(path) - 1 accepted steps took at least one candidate out
\* of the pool.  Then what one step taken while a path is walked does: a
\* rejected draw (the draws of the step stay within the bound), an accepted
\* structure that leaves the pool smaller, with the path ended exactly when
\* its num_a is 0, or the abort once the draws are used up.
C23_PathReachesTerminal ==
    /\ [](/\ pc \in {"pick", "exit", "value_error"} =>
                /\ ~delithiated
                /\ path[1] = Inf
                /\ \A k \in 2..Len(path) : path[k] # Zero
                /\ Len(path_structures) + Len(path) - 1 <= Len(meta_structures)
          /\ delithiated =>
                /\ pc \in {"loop", "done"}
                /\ path[1] = Inf
                /\ path[Len(path)] = Zero
                /\ \A k \in 2..(Len(path) - 1) : path[k] # Zero
                /\ Len(path) - 1 <= Len(meta_structures))
    /\ [][pc = "pick" =>
            \/ /\ pc' = "pick"
               /\ path' = path
               /\ path_structures' = path_structures
               /\ count' = count + 1
               /\ count' <= MaxDraws
            \/ /\ Len(path') = Len(path) + 1
               /\ Len(path_structures') < Len(path_structures)
               /\ IF path'[Len(path')] = Zero
                  THEN pc' = "loop" /\ delithiated'
                  ELSE pc' = "pick" /\ ~delithiated' /\ count' = 0
            \/ /\ pc' = "exit"
               /\ path' = path
               /\ count' > MaxDraws]_vars

\* A path ended at pure B after as many accepted steps as the pool had
\* entries: reference, two compounds, pure B.
C23_Witness ==
    /\ pc = "loop"
    /\ delithiated
    /\ Len(meta_structures) = 3
    /\ Len(path) - 1 = 3
    /\ path[Len(path)] = Zero

\* C24: pick_metastable_structure makes at most MaxDraws (1000) draws for
\* one step and returns the first drawn candidate whose num_a is strictly
\* below the current structure's; when MaxDraws draws in a row were
\* rejected the whole run ends there: no step follows, so no further path
\* and no averaged profile.
C24_DrawsBounded ==
    /\ [](pc = "pick" => count <= MaxDraws)
    /\ []((pc = "exit" /\ meta_structures # <<>>) => count = MaxDraws + 1)
    /\ [][(pc = "pick" /\ Len(path') = Len(path) + 1) =>
             /\ count < MaxDraws
             /\ RLess(path'[Len(path')], prev.ann.num_a)
             /\ \E idx \in 1..Len(path_structures) :
                   /\ path_structures[idx].ann.num_a = path'[Len(path')]
                   /\ path_structures' = PoolAfter(path_structures, idx)]_vars
    /\ [][(pc = "pick" /\ pc' = "exit") =>
             /\ count = MaxDraws
             /\ UNCHANGED <<trialVars, path, prev, path_structures,
                            voltage_profile>>]_vars
    /\ [][~(pc = "exit" /\ meta_structures # <<>>)]_vars

\* The second step of a path used up its draws: the run stopped with one
\* structure accepted and the profile of the path unfinished.
C24_Witness ==
    /\ (pc = "exit" /\ meta_structures # <<>>)
    /\ count = MaxDraws + 1
    /\ Len(path) = 2
    /\ ~delithiated

\* C25: every accepted step of a sampled path contributes one (capacity,
\* voltage) segment to the path's profile, the first step, which leaves the
\* num_a = +infinity reference, with voltage 0: a path with k accepted
\* steps has k segments.
C25_SegmentPerAcceptedStep ==
    (Sampling /\ Len(path) >= 1) =>
        /\ Len(voltage_profile) = Len(path) - 1
        /\ Len(voltage_profile) >= 1 => voltage_profile[1][2] = Zero

\* C26: the samples of a completed path are applied to the capacity grid in
\* increasing capacity order, each to every grid point <= its capacity, so
\* at a grid point covered by several samples the one with the larger
\* capacity wins; grid points above every sample keep 0.  Checked when the
\* first path that was averaged has just ended: the accumulated profile is
\* then the resampled profile of this path, and C is the set of the rows of
\* the profile whose capacity is at least the grid point.
C26_LargerCapacityWins ==
    (pc = "loop" /\ delithiated /\ Len(voltage_profile) >= 1 /\ num_contribs = 1) =>
        /\ \A j \in 1..(Len(voltage_profile) - 1) :
              RLeq(voltage_profile[j][1], voltage_profile[j + 1][1])
        /\ \A k \in 1..num_divisions :
              \E C \in {{j \in 1..Len(voltage_profile) :
                             RLeq(capacity_space[k], voltage_profile[j][1])}} :
                 IF C = {} THEN advanced_average_profile[k] = Zero
                 ELSE \E j \in C :
                         /\ \A i \in C : RLeq(voltage_profile[i][1],
                                              voltage_profile[j][1])
                         /\ advanced_average_profile[k] = voltage_profile[j][2]

\* C27: within one sampled path only the candidates consumed on the path
\* leave the pool: no structure is visited twice, and every candidate with
\* num_a below the current structure's (none of which was chosen yet) is
\* still in the pool, whatever the order of the records in the stable list.
C27_OnlyConsumedRemoved ==
    pc = "pick" =>
        /\ \A k, l \in 1..Len(path) : k # l => path[k] # path[l]
        /\ \A i \in 1..Len(meta_structures) :
              RLess(meta_structures[i].ann.num_a, prev.ann.num_a) =>
                 \E j \in 1..Len(path_structures) :
                    path_structures[j] = meta_structures[i]

\* C30: while a path is walked the pool is never empty and its first entry
\* is the pure-B reference (num_a = 0), which is eligible because the
\* current structure's num_a is > 0; a step ends in the fatal sampling
\* error only after MaxDraws rejected draws, never for want of an eligible
\* candidate.
C30_PureBAlwaysEligible ==
    /\ pc # "value_error"
    /\ (pc = "pick" \/ (pc = "exit" /\ meta_structures # <<>>)) =>
          /\ Len(path_structures) >= 1
          /\ path_structures[1] = meta_structures[1]
          /\ path_structures[1].ann.num_a = Zero
          /\ path_structures[1].stoichiometry = <<<<args.composition[2], 1>>>>
          /\ RLess(Zero, prev.ann.num_a)
          /\ Eligible(path_structures[1], prev)
    /\ (pc = "exit" /\ meta_structures # <<>>) => count = MaxDraws + 1

\* The run was aborted with pure B in the pool and eligible: the draws of
\* the step all fell on the other candidate left, whose num_a is not below
\* the current structure's.
C30_Witness ==
    /\ (pc = "exit" /\ meta_structures # <<>>)
    /\ Len(path_structures) = 2
    /\ Eligible(path_structures[1], prev)
    /\ ~Eligible(path_structures[2], prev)

\* C28: voltage_curve converts each stable composition to num_a as
\* binary_hull does, stoich/(1 - stoich) with +infinity at the pure-A
\* endpoint: the x of the voltage curve holds, for each stable composition
\* but the first, the num_a binary_hull gives that composition, and for the
\* pure-A endpoint the num_a of the pure-A reference in the stable list.
C28_SameNumAEverywhere ==
    pc = "voltage" =>
        /\ \A k \in 1..(Len(x) - 1) :
              x[k] = NumAOf(stable_comp[Len(stable_comp) - k + 1])
        /\ x[1] = hull_cursor[Len(hull_cursor)].ann.num_a

---------------------------------------------------------------------------
(* Properties of binary_hull computed in doubles                           *)

\* C22 as stated: every lower-hull vertex, the two chemical potentials
\* included, gets the hull distance exactly 0 (for the point at composition
\* 0 bisect_left returns 0 and the pair wraps around to the last and first
\* hull entries), and a record that is a vertex is in the stable list.
C22_VerticesAtDistanceZero ==
    fl_hull_dist # <<>> =>
        \A ind \in 1..Len(fl_hull_dist) :
            IsVertex(ind) =>
                /\ fl_hull_dist[ind] = FlZero
                /\ (1 < ind /\ ind < Len(fl_hull_dist)) => (ind - 1) \in fl_stable

\* C22 as amended: every lower-hull vertex gets the hull distance 0 in exact
\* arithmetic and, in doubles, a distance within the 1e-12 of line 287 on
\* either side of 0; the point at composition 0 gets exactly 0 in doubles
\* too; and a record that is a vertex is in the stable list whatever the
\* cutoff >= 0.
C22_VerticesAtDistanceZeroUpToRounding ==
    fl_hull_dist # <<>> =>
        /\ fl_hull_dist[1] = FlZero
        /\ \A ind \in 1..Len(fl_hull_dist) :
              IsVertex(ind) =>
                  /\ hull_dist[ind] = Zero
                  /\ ~FlLess(fl_hull_dist[ind], FlNeg(FlTolerance))
                  /\ ~FlLess(FlTolerance, fl_hull_dist[ind])
                  /\ (1 < ind /\ ind < Len(fl_hull_dist)) => (ind - 1) \in fl_stable

\* A record that is a vertex with a hull distance above 0 in doubles, kept
\* in the stable list at cutoff 0.
C22_Witness ==
    /\ fl_hull_dist # <<>>
    /\ IsVertex(2)
    /\ FlLess(FlZero, fl_hull_dist[2])
    /\ hull_cutoff = Zero
    /\ 1 \in fl_stable

===========================================================================
